---- MODULE Spec2Model ----
(***************************************************************************)
(* Model of the realtime connection manager of the trading client          *)
(* (services/websocket: class WebSocketService and the module-level        *)
(* singleton helpers).                                                     *)
(*                                                                         *)
(* The program is single-threaded and event driven.  One step of the model *)
(* is one task of the event loop together with the microtasks (promise     *)
(* continuations of connect()) it triggers: a call made by the UI, a timer *)
(* callback, or one WebSocket event handler.                               *)
(*                                                                         *)
(* The transport follows the WebSocket standard: a connection that fails   *)
(* fires `error` and then `close` in the same task (the promise            *)
(* continuation of connect() runs between the two handlers); a clean       *)
(* shutdown fires `close` alone; close() on a socket that is still         *)
(* connecting fails that connection; a constructor given an unusable URL   *)
(* throws synchronously.                                                   *)
(***************************************************************************)
EXTENDS Integers, Sequences, FiniteSets, TLC

\* ---------------------------------------------------------------- bounds
MaxInst == 2        \* instances constructed by initializeWebSocket
MaxSockets == 4     \* `new WebSocket` calls over the whole run
MaxTimers == 2      \* reconnect timers pending at the same time
MaxToasts == 2      \* 'Connection lost' notifications counted per instance
MaxDepth == 3       \* 401 handlers of the HTTP layer suspended at once
MaxRefresh == 4     \* /auth/refresh calls counted per request

\* ------------------------------------------------------ program constants
maxReconnectAttempts == 5
reconnectDelay == 1000

Null == 0
Insts == 1..MaxInst
Topics == {"wallet", "bots", "notifications"}
BaseUrls == {"http", "bad"}   \* a base URL `new WebSocket` accepts / rejects

CallbackNames ==
    {"onBalanceUpdate", "onTransactionNotification", "onBotStatusUpdate",
     "onSystemNotification", "onError", "onConnectionEstablished", "onDisconnect"}
CallbackSets == {{}, CallbackNames}

FrameTypes ==
    {"connection_established", "balance_update", "transaction_notification",
     "bot_status_update", "system_notification", "error_notification", "pong",
     "other"}

\* An inbound frame is text: not JSON at all, the JSON value null, or a JSON
\* object with a type and (possibly) data.
Undefined == [undefined |-> TRUE]   \* the JavaScript value `undefined`
Malformed == [json |-> FALSE, isNull |-> FALSE, type |-> "", data |-> Undefined]
JsonNull == [json |-> TRUE, isNull |-> TRUE, type |-> "", data |-> Undefined]
Frame(type, data) == [json |-> TRUE, isNull |-> FALSE, type |-> type, data |-> data]

\* Category names of transactions the frames are drawn with: those that
\* hold the marker 'receive' and those that do not.
CreditNames == {"receive", "p2p_receive", "mpesa_received"}
DebitNames == {"send", "Receive", "rec", "withdrawal", ""}
Amounts == {500, 1234567}
Transactions ==
    {[transaction_type |-> c, amount |-> 500] : c \in CreditNames \cup DebitNames}
    \cup {[transaction_type |-> c, amount |-> a] :
              c \in {"p2p_receive", "send"}, a \in Amounts}
    \cup {[amount |-> a] : a \in Amounts}
    \cup {[transaction_type |-> c] : c \in {"receive", "withdrawal"}}
Levels == {"error", "warning", "info"}

\* Data carrying every field a branch of the dispatch reads.
SampleData ==
    [transaction |-> [transaction_type |-> "receive", amount |-> 500],
     message |-> "maintenance", level |-> "warning", error |-> "failed"]

\* Every type with no data, with data no branch reads and with data every
\* branch reads; the types that raise a toast with each shape of their data.
AllFrames ==
    {Malformed, JsonNull}
    \cup {Frame(t, d) : t \in FrameTypes,
                        d \in {Undefined, [balance_kes |-> 500], SampleData}}
    \cup {Frame("transaction_notification", [transaction |-> tx]) :
              tx \in Transactions}
    \cup {Frame("system_notification", d) :
              d \in {[message |-> "maintenance"], [message |-> ""]}
                    \cup {[message |-> "maintenance", level |-> l] : l \in Levels}}
    \cup {Frame("error_notification", d) : d \in {[error |-> "failed"], [error |-> ""]}}

\* The frames every session is exercised with: one of each type and one that
\* is not JSON.
Frames == {Malformed} \cup {Frame(t, SampleData) : t \in FrameTypes}

\* Outbound messages: the envelope the UI sends in every session, and the
\* ones the send operations are exercised with.
Envelope == [type |-> "ping"]
BotIds == {"b1", "b2"}
Messages ==
    {[type |-> "ping"], [type |-> "subscribe_transactions"],
     [type |-> "get_wallet_status"], [type |-> "custom"]}
    \cup {[type |-> "subscribe_bot_updates", bot_id |-> b] : b \in BotIds}

VARIABLES
    websocketService,      \* the singleton: an instance or Null
    nInst,                 \* instances constructed so far (they are 1..nInst)
    baseUrl,               \* per instance: constructor argument
    callbacks,             \* per instance: names of the registered callbacks
    walletSocket,          \* per instance: socket id or Null
    botsSocket,
    notificationsSocket,
    reconnectAttempts,
    isConnecting,
    sockets,               \* every WebSocket constructed, by id (its index)
    calls,                 \* connect() invocations suspended at an await
    timers,                \* pending setTimeout callbacks, in scheduling order
    closeDue,              \* socket whose close event ends the running task
    lostToasts,            \* per instance: 'Connection lost' toasts emitted
    scheduled,             \* per instance: delays scheduled since the last reset
    http,                  \* the HTTP layer: storage and the request in progress
    ev                     \* what the last step did (observation only)

vars == <<websocketService, nInst, baseUrl, callbacks, walletSocket, botsSocket,
          notificationsSocket, reconnectAttempts, isConnecting, sockets, calls,
          timers, closeDue, lostToasts, scheduled, http, ev>>

handles == <<walletSocket, botsSocket, notificationsSocket>>
retry == <<reconnectAttempts, timers, lostToasts, scheduled>>

RECURSIVE Pow2(_)
Pow2(n) == IF n <= 0 THEN 1 ELSE 2 * Pow2(n - 1)

SockIds == 1..Len(sockets)

Handle(i, t) ==
    CASE t = "wallet" -> walletSocket[i]
      [] t = "bots" -> botsSocket[i]
      [] t = "notifications" -> notificationsSocket[i]

NewSocket(i, t) ==
    [inst |-> i, topic |-> t, readyState |-> "CONNECTING", promise |-> "pending"]

\* A step's observation. Besides what every step records, a send records the
\* message it was given (payload) and what it handed to a transport (wire);
\* a dispatch records the frame (payload), the arguments passed to the
\* callbacks (args, parallel to fired) and the toast it raised (note); a
\* close handler records the calls it makes, in their order (order).
NoEv == [op |-> "init", inst |-> Null, sock |-> Null, arg |-> "", res |-> "",
         settled |-> "none", fired |-> <<>>, toast |-> "",
         payload |-> Undefined, args |-> <<>>, note |-> <<>>, wire |-> <<>>,
         order |-> <<>>]

Ev(op, i, s, arg, res, settled, fired, toast) ==
    [op |-> op, inst |-> i, sock |-> s, arg |-> arg, res |-> res,
     settled |-> settled, fired |-> fired, toast |-> toast,
     payload |-> Undefined, args |-> <<>>, note |-> <<>>, wire |-> <<>>,
     order |-> <<>>]

\* The HTTP layer before any request: nothing stored, nothing in flight.
\* stack holds the requests whose 401 handler is suspended at its
\* `await api.post('/auth/refresh')`, the caller's request at the bottom.
NoHttp ==
    [phase |-> "idle", inflight |-> "none", auth |-> "none", stack |-> <<>>,
     access_token |-> "none", refresh_token |-> FALSE, user |-> FALSE,
     location |-> "app", outcome |-> "none", error |-> 0, refreshes |-> 0]

Init ==
    /\ websocketService = Null
    /\ nInst = 0
    /\ baseUrl = [i \in Insts |-> "http"]
    /\ callbacks = [i \in Insts |-> {}]
    /\ walletSocket = [i \in Insts |-> Null]
    /\ botsSocket = [i \in Insts |-> Null]
    /\ notificationsSocket = [i \in Insts |-> Null]
    /\ reconnectAttempts = [i \in Insts |-> 0]
    /\ isConnecting = [i \in Insts |-> FALSE]
    /\ sockets = <<>>
    /\ calls = {}
    /\ timers = <<>>
    /\ closeDue = Null
    /\ lostToasts = [i \in Insts |-> 0]
    /\ scheduled = [i \in Insts |-> <<>>]
    /\ http = NoHttp
    /\ ev = NoEv

\* ------------------------------------------------------------ procedures

\* What the step constructed and announced, read off the step itself.
Constructed == IF Len(sockets') > Len(sockets) THEN Len(sockets') ELSE Null
ToastOf(i) == IF lostToasts'[i] # lostToasts[i] THEN "Connection lost" ELSE ""

\* scheduleReconnect() with a linear instead of an exponential delay.
scheduleReconnectLinear(i, T) ==
    IF reconnectAttempts[i] < maxReconnectAttempts
    THEN /\ Len(T) < MaxTimers
         /\ reconnectAttempts' = [reconnectAttempts EXCEPT ![i] = @ + 1]
         /\ LET delay == reconnectDelay * (reconnectAttempts[i] + 1)
            IN /\ timers' = Append(T, [inst |-> i, delay |-> delay])
               /\ scheduled' = [scheduled EXCEPT ![i] = Append(@, delay)]
         /\ lostToasts' = lostToasts
    ELSE /\ lostToasts[i] < MaxToasts
         /\ lostToasts' = [lostToasts EXCEPT ![i] = @ + 1]
         /\ timers' = T
         /\ UNCHANGED <<reconnectAttempts, scheduled>>

\* scheduleReconnect() without the cap on the attempt counter.
scheduleReconnectNoCap(i, T) ==
    /\ Len(T) < MaxTimers
    /\ reconnectAttempts' = [reconnectAttempts EXCEPT ![i] = @ + 1]
    /\ LET delay == reconnectDelay * Pow2((reconnectAttempts[i] + 1) - 1)
       IN /\ timers' = Append(T, [inst |-> i, delay |-> delay])
          /\ scheduled' = [scheduled EXCEPT ![i] = Append(@, delay)]
    /\ lostToasts' = lostToasts

\* scheduleReconnect(); T is the timer queue at the time of the call.
scheduleReconnect(i, T) ==
    IF reconnectAttempts[i] < maxReconnectAttempts
    THEN /\ Len(T) < MaxTimers
         /\ reconnectAttempts' = [reconnectAttempts EXCEPT ![i] = @ + 1]
         /\ LET delay == reconnectDelay * Pow2((reconnectAttempts[i] + 1) - 1)
            IN /\ timers' = Append(T, [inst |-> i, delay |-> delay])
               /\ scheduled' = [scheduled EXCEPT ![i] = Append(@, delay)]
         /\ lostToasts' = lostToasts
    ELSE /\ lostToasts[i] < MaxToasts
         /\ lostToasts' = [lostToasts EXCEPT ![i] = @ + 1]
         /\ timers' = T
         /\ UNCHANGED <<reconnectAttempts, scheduled>>

\* The catch block of connect() without `this.isConnecting = false`.
connectCatchKeepsFlag(i, T) ==
    /\ isConnecting' = isConnecting
    /\ scheduleReconnect(i, T)

\* The catch block of connect().
connectCatch(i, T) ==
    /\ isConnecting' = [isConnecting EXCEPT ![i] = FALSE]
    /\ scheduleReconnect(i, T)

\* A catch block that rethrows: the promise of connect() would reject.
CatchRethrows == "rejected"

\* How the promise of connect() settles when its catch block has run.
CatchSettles == "resolved"

\* connect() without the `if (this.isConnecting) return` guard.
connectUnguarded(i, T) ==
    IF baseUrl[i] = "bad"
    THEN /\ connectCatch(i, T)
         /\ UNCHANGED <<sockets, walletSocket, calls>>
    ELSE /\ Len(sockets) < MaxSockets
         /\ isConnecting' = [isConnecting EXCEPT ![i] = TRUE]
         /\ sockets' = Append(sockets, NewSocket(i, "wallet"))
         /\ walletSocket' = [walletSocket EXCEPT ![i] = Len(sockets) + 1]
         /\ calls' = calls \cup {[inst |-> i, awaiting |-> Len(sockets) + 1]}
         /\ timers' = T
         /\ UNCHANGED <<reconnectAttempts, lostToasts, scheduled>>

\* connect() up to its first await (and through its catch block when the
\* WebSocket constructor throws).
connect(i, T) ==
    IF isConnecting[i]
    THEN /\ timers' = T
         /\ UNCHANGED <<isConnecting, sockets, walletSocket, calls,
                        reconnectAttempts, lostToasts, scheduled>>
    ELSE IF baseUrl[i] = "bad"
    THEN /\ connectCatch(i, T)
         /\ UNCHANGED <<sockets, walletSocket, calls>>
    ELSE /\ Len(sockets) < MaxSockets
         /\ isConnecting' = [isConnecting EXCEPT ![i] = TRUE]
         /\ sockets' = Append(sockets, NewSocket(i, "wallet"))
         /\ walletSocket' = [walletSocket EXCEPT ![i] = Len(sockets) + 1]
         /\ calls' = calls \cup {[inst |-> i, awaiting |-> Len(sockets) + 1]}
         /\ timers' = T
         /\ UNCHANGED <<reconnectAttempts, lostToasts, scheduled>>

ConnectRes(i) ==
    IF isConnecting[i] THEN "guarded"
    ELSE IF baseUrl[i] = "bad" THEN "threw" ELSE "started"

ConnectSettled(i) ==
    IF isConnecting[i] THEN "resolved"
    ELSE IF baseUrl[i] = "bad" THEN CatchSettles ELSE "none"

\* WebSocket.close()
CloseSock(sock) ==
    IF sock.readyState \in {"CONNECTING", "OPEN"}
    THEN [sock EXCEPT !.readyState = "CLOSING"]
    ELSE sock

\* disconnect() written as an else-if chain: one handle per call.
disconnectElseIf(i) ==
    LET first == IF walletSocket[i] # Null THEN "wallet"
                 ELSE IF botsSocket[i] # Null THEN "bots" ELSE "notifications"
    IN /\ sockets' = [s \in DOMAIN sockets |->
                        IF s = Handle(i, first) THEN CloseSock(sockets[s])
                        ELSE sockets[s]]
       /\ walletSocket' = [walletSocket EXCEPT ![i] = Null]
       /\ botsSocket' =
              IF first = "wallet" THEN botsSocket
              ELSE [botsSocket EXCEPT ![i] = Null]
       /\ notificationsSocket' =
              IF first = "notifications"
              THEN [notificationsSocket EXCEPT ![i] = Null]
              ELSE notificationsSocket

\* disconnect()
disconnect(i) ==
    /\ sockets' = [s \in DOMAIN sockets |->
                     IF s \in {walletSocket[i], botsSocket[i], notificationsSocket[i]}
                     THEN CloseSock(sockets[s]) ELSE sockets[s]]
    /\ walletSocket' = [walletSocket EXCEPT ![i] = Null]
    /\ botsSocket' = [botsSocket EXCEPT ![i] = Null]
    /\ notificationsSocket' = [notificationsSocket EXCEPT ![i] = Null]

\* An isConnected() that asks for all three channels.
isConnectedAll(i) ==
    \A t \in Topics : Handle(i, t) # Null /\ sockets[Handle(i, t)].readyState = "OPEN"

\* isConnected()
isConnected(i) ==
    \E t \in Topics : Handle(i, t) # Null /\ sockets[Handle(i, t)].readyState = "OPEN"

\* --------------------------------------------------- calls made by the UI

\* getWebSocketService()
getWebSocketService == websocketService

\* An initializeWebSocket that replaces the singleton without disconnecting
\* the previous instance.
initializeWebSocketNoTeardown(url, cbs) ==
    /\ closeDue = Null
    /\ nInst < MaxInst
    /\ nInst' = nInst + 1
    /\ websocketService' = nInst + 1
    /\ baseUrl' = [baseUrl EXCEPT ![nInst + 1] = url]
    /\ callbacks' = [callbacks EXCEPT ![nInst + 1] = cbs]
    /\ ev' = Ev("initializeWebSocket", nInst + 1, Null, url, "", "none", <<>>, "")
    /\ UNCHANGED <<sockets, walletSocket, botsSocket, notificationsSocket,
                   reconnectAttempts, isConnecting, calls, timers, closeDue,
                   lostToasts, scheduled, http>>

initializeWebSocket(url, cbs) ==
    /\ closeDue = Null
    /\ nInst < MaxInst
    /\ IF websocketService # Null
       THEN disconnect(websocketService)
       ELSE UNCHANGED <<sockets, walletSocket, botsSocket, notificationsSocket>>
    /\ nInst' = nInst + 1
    /\ websocketService' = nInst + 1
    /\ baseUrl' = [baseUrl EXCEPT ![nInst + 1] = url]
    /\ callbacks' = [callbacks EXCEPT ![nInst + 1] = cbs]
    /\ ev' = Ev("initializeWebSocket", nInst + 1, Null, url, "", "none", <<>>, "")
    /\ UNCHANGED <<reconnectAttempts, isConnecting, calls, timers, closeDue,
                   lostToasts, scheduled, http>>

disconnectWebSocket ==
    /\ closeDue = Null
    /\ IF websocketService # Null
       THEN /\ disconnect(websocketService)
            /\ websocketService' = Null
       ELSE UNCHANGED <<sockets, walletSocket, botsSocket, notificationsSocket,
                        websocketService>>
    /\ ev' = Ev("disconnectWebSocket", websocketService, Null, "", "", "none", <<>>, "")
    /\ UNCHANGED <<nInst, http, baseUrl, callbacks, reconnectAttempts, isConnecting,
                   calls, timers, closeDue, lostToasts, scheduled>>

\* The UI holds the handle of the current instance only.
CallConnect(i) ==
    /\ closeDue = Null
    /\ i = websocketService
    /\ connect(i, timers)
    /\ ev' = Ev("connect", i, Constructed, "caller", ConnectRes(i), ConnectSettled(i),
                <<>>, ToastOf(i))
    /\ UNCHANGED <<websocketService, nInst, http, baseUrl, callbacks, botsSocket,
                   notificationsSocket, closeDue>>

\* A disconnect() that reports to the registered onDisconnect callback.
CallDisconnectNotifies(i) ==
    /\ closeDue = Null
    /\ i = websocketService
    /\ disconnect(i)
    /\ ev' = Ev("disconnect", i, Null, "", "", "none",
                IF "onDisconnect" \in callbacks[i] THEN <<"onDisconnect">> ELSE <<>>,
                "")
    /\ UNCHANGED <<websocketService, nInst, http, baseUrl, callbacks, reconnectAttempts,
                   isConnecting, calls, timers, closeDue, lostToasts, scheduled>>

CallDisconnect(i) ==
    /\ closeDue = Null
    /\ i = websocketService
    /\ disconnect(i)
    /\ ev' = Ev("disconnect", i, Null, "", "", "none", <<>>, "")
    /\ UNCHANGED <<websocketService, nInst, http, baseUrl, callbacks, reconnectAttempts,
                   isConnecting, calls, timers, closeDue, lostToasts, scheduled>>

\* The UI asks the current instance whether anything is open.
CallIsConnected(i) ==
    /\ closeDue = Null
    /\ i = websocketService
    /\ ev' = Ev("isConnected", i, Null, "",
                IF isConnected(i) THEN "true" ELSE "false", "none", <<>>, "")
    /\ UNCHANGED <<websocketService, nInst, http, baseUrl, callbacks, handles,
                   reconnectAttempts, isConnecting, sockets, calls, timers,
                   closeDue, lostToasts, scheduled>>

setCallbacks(i, cbs) ==
    /\ closeDue = Null
    /\ i = websocketService
    /\ callbacks' = [callbacks EXCEPT ![i] = cbs]
    /\ ev' = Ev("setCallbacks", i, Null, "", "", "none", <<>>, "")
    /\ UNCHANGED <<websocketService, nInst, http, baseUrl, handles, reconnectAttempts,
                   isConnecting, sockets, calls, timers, closeDue, lostToasts,
                   scheduled>>

\* The socketType parameter defaults to 'wallet' when the caller omits it.
Omitted == "undefined"
TopicOr(socketType) == IF socketType = Omitted THEN "wallet" ELSE socketType

\* JSON.stringify of an outbound envelope: an object with a type and, for
\* the bot subscription, a bot_id.
Stringify(message) ==
    "{\"type\":\"" \o message.type \o "\""
    \o (IF "bot_id" \in DOMAIN message
        THEN ",\"bot_id\":\"" \o message.bot_id \o "\"" ELSE "")
    \o "}"

\* A sendMessage that hands the message to whatever transport the handle
\* refers to, open or not.
sendMessageUnchecked(i, message, socketType) ==
    LET socket == Handle(i, TopicOr(socketType))
    IN IF socket # Null
       THEN [res |-> "sent", sock |-> socket, message |-> message,
             wire |-> <<[sock |-> socket, text |-> Stringify(message)]>>]
       ELSE [res |-> "warn", sock |-> socket, message |-> message, wire |-> <<>>]

\* sendMessage(message, socketType): what the call does. It changes no field;
\* it either hands the serialized message to the topic's transport or warns.
sendMessage(i, message, socketType) ==
    LET socket == Handle(i, TopicOr(socketType))
    IN IF socket # Null /\ sockets[socket].readyState = "OPEN"
       THEN [res |-> "sent", sock |-> socket, message |-> message,
             wire |-> <<[sock |-> socket, text |-> Stringify(message)]>>]
       ELSE [res |-> "warn", sock |-> socket, message |-> message, wire |-> <<>>]

\* A call by the UI of one of the send operations, `sent` being what its
\* sendMessage did.
Sends(op, i, socketType, sent) ==
    /\ closeDue = Null
    /\ i = websocketService
    /\ ev' = [Ev(op, i, sent.sock, socketType, sent.res, "none", <<>>, "")
                 EXCEPT !.payload = sent.message, !.wire = sent.wire]
    /\ UNCHANGED <<websocketService, nInst, http, baseUrl, callbacks, handles,
                   reconnectAttempts, isConnecting, sockets, calls, timers,
                   closeDue, lostToasts, scheduled>>

CallSendMessage(i, message, socketType) ==
    Sends("sendMessage", i, socketType, sendMessage(i, message, socketType))

\* A ping that always goes to the wallet topic.
pingWallet(i, socketType) ==
    Sends("ping", i, socketType, sendMessage(i, [type |-> "ping"], "wallet"))

ping(i, socketType) ==
    Sends("ping", i, socketType, sendMessage(i, [type |-> "ping"], socketType))

subscribeToTransactions(i) ==
    Sends("subscribeToTransactions", i, "wallet",
          sendMessage(i, [type |-> "subscribe_transactions"], "wallet"))

getWalletStatus(i) ==
    Sends("getWalletStatus", i, "wallet",
          sendMessage(i, [type |-> "get_wallet_status"], "wallet"))

subscribeToBotUpdates(i, botId) ==
    Sends("subscribeToBotUpdates", i, "bots",
          sendMessage(i, [type |-> "subscribe_bot_updates", bot_id |-> botId],
                      "bots"))

\* ---------------------------------------------------------------- timers

RemoveAt(q, k) == [j \in 1..(Len(q) - 1) |-> IF j < k THEN q[j] ELSE q[j + 1]]

\* A timer set earlier with a delay no longer than another's expires first.
MayFire(k) == \A j \in 1..(k - 1) : timers[j].delay > timers[k].delay

\* A timer callback that does nothing once its Supervisor is no longer the
\* singleton.
TimerFireUnlessStale(k) ==
    /\ closeDue = Null
    /\ k \in 1..Len(timers)
    /\ MayFire(k)
    /\ LET i == timers[k].inst
       IN IF i = websocketService
          THEN /\ connect(i, RemoveAt(timers, k))
               /\ ev' = Ev("connect", i, Constructed, "timer", ConnectRes(i),
                           ConnectSettled(i), <<>>, ToastOf(i))
          ELSE /\ timers' = RemoveAt(timers, k)
               /\ ev' = Ev("timer", i, Null, "timer", "stale", "none", <<>>, "")
               /\ UNCHANGED <<isConnecting, sockets, walletSocket, calls,
                              reconnectAttempts, lostToasts, scheduled>>
    /\ UNCHANGED <<websocketService, nInst, http, baseUrl, callbacks, botsSocket,
                   notificationsSocket, closeDue>>

TimerFire(k) ==
    /\ closeDue = Null
    /\ k \in 1..Len(timers)
    /\ MayFire(k)
    /\ LET i == timers[k].inst
       IN /\ connect(i, RemoveAt(timers, k))
          /\ ev' = Ev("connect", i, Constructed, "timer", ConnectRes(i),
                      ConnectSettled(i), <<>>, ToastOf(i))
    /\ UNCHANGED <<websocketService, nInst, http, baseUrl, callbacks, botsSocket,
                   notificationsSocket, closeDue>>

\* ------------------------------------------------- WebSocket event handlers

Awaiting(s) == {c \in calls : c.awaiting = s}

\* The continuation of connect() after `await connectWallet()`: connectBots().
afterWallet(i, c) ==
    /\ Len(sockets) < MaxSockets
    /\ botsSocket' = [botsSocket EXCEPT ![i] = Len(sockets) + 1]
    /\ calls' = (calls \ {c}) \cup {[inst |-> i, awaiting |-> Len(sockets) + 1]}
    /\ UNCHANGED <<walletSocket, notificationsSocket, isConnecting,
                   reconnectAttempts, scheduled>>

\* ... after `await connectBots()`: connectNotifications().
afterBots(i, c) ==
    /\ Len(sockets) < MaxSockets
    /\ notificationsSocket' = [notificationsSocket EXCEPT ![i] = Len(sockets) + 1]
    /\ calls' = (calls \ {c}) \cup {[inst |-> i, awaiting |-> Len(sockets) + 1]}
    /\ UNCHANGED <<walletSocket, botsSocket, isConnecting, reconnectAttempts,
                   scheduled>>

\* The end of the try block without `this.reconnectAttempts = 0`.
afterNotificationsKeepsCount(i, c) ==
    /\ isConnecting' = [isConnecting EXCEPT ![i] = FALSE]
    /\ calls' = calls \ {c}
    /\ UNCHANGED <<handles, reconnectAttempts, scheduled>>

\* ... after `await connectNotifications()`: the end of the try block.
afterNotifications(i, c) ==
    /\ reconnectAttempts' = [reconnectAttempts EXCEPT ![i] = 0]
    /\ scheduled' = [scheduled EXCEPT ![i] = <<>>]
    /\ isConnecting' = [isConnecting EXCEPT ![i] = FALSE]
    /\ calls' = calls \ {c}
    /\ UNCHANGED handles

NextTopic(t) == IF t = "wallet" THEN "bots" ELSE "notifications"

\* onopen: resolve(); the awaiting connect() resumes in the same task.
onopen(s) ==
    /\ closeDue = Null
    /\ s \in SockIds
    /\ sockets[s].readyState = "CONNECTING"
    /\ LET i == sockets[s].inst
           t == sockets[s].topic
           opened == [sockets EXCEPT ![s].readyState = "OPEN",
                                     ![s].promise = "resolved"]
       IN IF Awaiting(s) = {}
          THEN /\ sockets' = opened
               /\ UNCHANGED <<handles, isConnecting, reconnectAttempts, scheduled,
                              calls>>
               /\ ev' = Ev("onopen", i, Null, t, "", "none", <<>>, "")
          ELSE LET c == CHOOSE c \in Awaiting(s) : TRUE
               IN /\ CASE t = "wallet" -> afterWallet(i, c)
                       [] t = "bots" -> afterBots(i, c)
                       [] t = "notifications" -> afterNotifications(i, c)
                  /\ sockets' = IF t = "notifications" THEN opened
                                ELSE Append(opened, NewSocket(i, NextTopic(t)))
                  /\ ev' = Ev("onopen", i, Constructed, t,
                              IF t = "notifications" THEN "completed" ELSE "next",
                              IF t = "notifications" THEN "resolved" ELSE "none",
                              <<>>, "")
    /\ UNCHANGED <<websocketService, nInst, http, baseUrl, callbacks, timers, closeDue,
                   lostToasts>>

\* An onerror that schedules the reconnect itself.
onerrorRetries(s) ==
    /\ closeDue = Null
    /\ s \in SockIds
    /\ sockets[s].readyState \in {"CONNECTING", "OPEN", "CLOSING"}
    /\ LET i == sockets[s].inst
           pending == sockets[s].promise = "pending"
       IN /\ sockets' = [sockets EXCEPT ![s].readyState = "CLOSED",
                                        ![s].promise = IF pending THEN "rejected" ELSE @]
          /\ IF pending /\ Awaiting(s) # {}
             THEN /\ connectCatch(i, timers)
                  /\ calls' = calls \ Awaiting(s)
                  /\ ev' = Ev("onerror", i, Null, sockets[s].topic, "rejected",
                              CatchSettles, <<>>, ToastOf(i))
             ELSE /\ scheduleReconnect(i, timers)
                  /\ UNCHANGED <<isConnecting, calls>>
                  /\ ev' = Ev("onerror", i, Null, sockets[s].topic, "ignored",
                              "none", <<>>, ToastOf(i))
    /\ closeDue' = s
    /\ UNCHANGED <<websocketService, nInst, http, baseUrl, callbacks, handles>>

\* An onerror whose catch block closes the channels opened so far.
onerrorRollsBack(s) ==
    /\ closeDue = Null
    /\ s \in SockIds
    /\ sockets[s].readyState \in {"CONNECTING", "OPEN", "CLOSING"}
    /\ LET i == sockets[s].inst
           pending == sockets[s].promise = "pending"
           failed == [sockets EXCEPT ![s].readyState = "CLOSED",
                                     ![s].promise = IF pending THEN "rejected" ELSE @]
       IN IF pending /\ Awaiting(s) # {}
          THEN /\ sockets' = [x \in DOMAIN sockets |->
                                IF x \in {walletSocket[i], botsSocket[i],
                                          notificationsSocket[i]}
                                THEN CloseSock(failed[x]) ELSE failed[x]]
               /\ connectCatch(i, timers)
               /\ calls' = calls \ Awaiting(s)
               /\ ev' = Ev("onerror", i, Null, sockets[s].topic, "rejected",
                           CatchSettles, <<>>, ToastOf(i))
          ELSE /\ sockets' = failed
               /\ UNCHANGED <<isConnecting, retry, calls>>
               /\ ev' = Ev("onerror", i, Null, sockets[s].topic, "ignored",
                           "none", <<>>, "")
    /\ closeDue' = s
    /\ UNCHANGED <<websocketService, nInst, http, baseUrl, callbacks, handles>>

\* The connection fails: readyState becomes CLOSED and `error` fires, with
\* `close` due next in the same task.  onerror: reject(error); when the
\* promise is still pending the awaiting connect() runs its catch block.
onerror(s) ==
    /\ closeDue = Null
    /\ s \in SockIds
    /\ sockets[s].readyState \in {"CONNECTING", "OPEN", "CLOSING"}
    /\ LET i == sockets[s].inst
           pending == sockets[s].promise = "pending"
       IN /\ sockets' = [sockets EXCEPT ![s].readyState = "CLOSED",
                                        ![s].promise = IF pending THEN "rejected" ELSE @]
          /\ IF pending /\ Awaiting(s) # {}
             THEN /\ connectCatch(i, timers)
                  /\ calls' = calls \ Awaiting(s)
                  /\ ev' = Ev("onerror", i, Null, sockets[s].topic, "rejected",
                              CatchSettles, <<>>, ToastOf(i))
             ELSE /\ UNCHANGED <<isConnecting, retry, calls>>
                  /\ ev' = Ev("onerror", i, Null, sockets[s].topic, "ignored",
                              "none", <<>>, "")
    /\ closeDue' = s
    /\ UNCHANGED <<websocketService, nInst, http, baseUrl, callbacks, handles>>

\* A close handler that reports every topic's close to onDisconnect.
oncloseAnyTopic(s) ==
    /\ s \in SockIds
    /\ \/ closeDue = s
       \/ /\ closeDue = Null
          /\ sockets[s].readyState \in {"OPEN", "CLOSING"}
          /\ sockets[s].promise = "resolved"
    /\ LET i == sockets[s].inst
           notified == IF "onDisconnect" \in callbacks[i]
                       THEN <<"onDisconnect">> ELSE <<>>
       IN /\ sockets' = [sockets EXCEPT ![s].readyState = "CLOSED"]
          /\ scheduleReconnect(i, timers)
          /\ ev' = [Ev("onclose", i, Null, sockets[s].topic,
                       IF closeDue = s THEN "failed" ELSE "clean", "none",
                       notified, ToastOf(i))
                      EXCEPT !.order = notified \o <<"scheduleReconnect">>]
    /\ closeDue' = Null
    /\ UNCHANGED <<websocketService, nInst, http, baseUrl, callbacks, handles,
                   isConnecting, calls>>

\* onclose: after `error` in the same task, or alone when a connection that
\* was open shuts down cleanly.
onclose(s) ==
    /\ s \in SockIds
    /\ \/ closeDue = s
       \/ /\ closeDue = Null
          /\ sockets[s].readyState \in {"OPEN", "CLOSING"}
          /\ sockets[s].promise = "resolved"
    /\ LET i == sockets[s].inst
           notified == IF sockets[s].topic = "wallet" /\ "onDisconnect" \in callbacks[i]
                       THEN <<"onDisconnect">> ELSE <<>>
       IN /\ sockets' = [sockets EXCEPT ![s].readyState = "CLOSED"]
          /\ scheduleReconnect(i, timers)
          /\ ev' = [Ev("onclose", i, Null, sockets[s].topic,
                       IF closeDue = s THEN "failed" ELSE "clean", "none",
                       notified, ToastOf(i))
                      EXCEPT !.order = notified \o <<"scheduleReconnect">>]
    /\ closeDue' = Null
    /\ UNCHANGED <<websocketService, nInst, http, baseUrl, callbacks, handles,
                   isConnecting, calls>>

\* String.prototype.startsWith.
StartsWith(str, pat) ==
    Len(pat) <= Len(str) /\ SubSeq(str, 1, Len(pat)) = pat

\* String.prototype.includes.
Includes(str, pat) ==
    \E k \in 1..(Len(str) - Len(pat) + 1) : SubSeq(str, k, k + Len(pat) - 1) = pat

\* Number.prototype.toLocaleString of a non-negative integer, in a locale
\* that groups digits by three with commas.
Group3(n) ==
    IF n < 10 THEN "00" \o ToString(n)
    ELSE IF n < 100 THEN "0" \o ToString(n) ELSE ToString(n)

RECURSIVE toLocaleString(_)
toLocaleString(n) ==
    IF n < 1000 THEN ToString(n)
    ELSE toLocaleString(n \div 1000) \o "," \o Group3(n % 1000)

\* A string field that is present and not empty.
Truthy(d, f) == f \in DOMAIN d /\ d[f] # ""

\* The toast of a transaction_notification.
transactionToast(tx) ==
    LET isReceive == /\ "transaction_type" \in DOMAIN tx
                     /\ Includes(tx.transaction_type, "receive")
        amount == IF "amount" \in DOMAIN tx THEN toLocaleString(tx.amount) ELSE "0"
    IN [kind |-> "success",
        text |-> (IF isReceive THEN "Received" ELSE "Sent") \o " KES " \o amount,
        icon |-> IF isReceive THEN "money_bag" ELSE "money_wings"]

systemToast(d) ==
    LET level == IF Truthy(d, "level") THEN d.level ELSE "info"
    IN CASE level = "error" -> [kind |-> "error", text |-> d.message, icon |-> ""]
         [] level = "warning" -> [kind |-> "plain", text |-> d.message,
                                  icon |-> "warning"]
         [] OTHER -> [kind |-> "success", text |-> d.message, icon |-> ""]

\* The toast a branch of handleMessage raises after its callback. Reading a
\* field of undefined data throws into the catch block: no toast either.
Toasts(type, d) ==
    CASE type = "transaction_notification" ->
             IF "transaction" \in DOMAIN d
             THEN <<transactionToast(d.transaction)>> ELSE <<>>
      [] type = "system_notification" ->
             IF Truthy(d, "message") THEN <<systemToast(d)>> ELSE <<>>
      [] type = "error_notification" ->
             IF Truthy(d, "error")
             THEN <<[kind |-> "error", text |-> d.error, icon |-> ""]>> ELSE <<>>
      [] OTHER -> <<>>

\* A switch whose default branch reports to onError.
RouteUnknownToError(type) ==
    CASE type = "connection_established" -> <<"onConnectionEstablished">>
      [] type = "balance_update" -> <<"onBalanceUpdate">>
      [] type = "transaction_notification" -> <<"onTransactionNotification">>
      [] type = "bot_status_update" -> <<"onBotStatusUpdate">>
      [] type = "system_notification" -> <<"onSystemNotification">>
      [] type = "error_notification" -> <<"onError">>
      [] type = "pong" -> <<>>
      [] OTHER -> <<"onError">>

\* A switch that also tells the balance callback about bot updates.
RouteBotsToBalance(type) ==
    CASE type = "connection_established" -> <<"onConnectionEstablished">>
      [] type = "balance_update" -> <<"onBalanceUpdate">>
      [] type = "transaction_notification" -> <<"onTransactionNotification">>
      [] type = "bot_status_update" -> <<"onBotStatusUpdate", "onBalanceUpdate">>
      [] type = "system_notification" -> <<"onSystemNotification">>
      [] type = "error_notification" -> <<"onError">>
      [] OTHER -> <<>>

\* handleMessage(data, source): the callback the switch routes a type to.
Route(type) ==
    CASE type = "connection_established" -> <<"onConnectionEstablished">>
      [] type = "balance_update" -> <<"onBalanceUpdate">>
      [] type = "transaction_notification" -> <<"onTransactionNotification">>
      [] type = "bot_status_update" -> <<"onBotStatusUpdate">>
      [] type = "system_notification" -> <<"onSystemNotification">>
      [] type = "error_notification" -> <<"onError">>
      [] OTHER -> <<>>

\* handleMessage(data, source): the registered callbacks invoked, their
\* arguments and the toast raised. JSON.parse throwing, or reading the type
\* of null, ends in the catch block.
handleMessage(i, frame) ==
    IF ~frame.json \/ frame.isNull
    THEN [fired |-> <<>>, args |-> <<>>, note |-> <<>>]
    ELSE LET cbs == SelectSeq(Route(frame.type), LAMBDA cb : cb \in callbacks[i])
         IN [fired |-> cbs,
             args |-> [k \in 1..Len(cbs) |-> frame.data],
             note |-> Toasts(frame.type, frame.data)]

FrameName(frame) ==
    IF ~frame.json THEN "malformed" ELSE IF frame.isNull THEN "null" ELSE frame.type

\* An onmessage whose parse failure closes the transport.
onmessageFatal(s, frame) ==
    /\ closeDue = Null
    /\ s \in SockIds
    /\ sockets[s].readyState = "OPEN"
    /\ LET h == handleMessage(sockets[s].inst, frame)
       IN ev' = [Ev("onmessage", sockets[s].inst, s, FrameName(frame),
                    sockets[s].topic, "none", h.fired, "")
                   EXCEPT !.payload = frame, !.args = h.args, !.note = h.note]
    /\ sockets' = IF frame.json THEN sockets
                  ELSE [sockets EXCEPT ![s] = CloseSock(sockets[s])]
    /\ UNCHANGED <<websocketService, nInst, http, baseUrl, callbacks, handles,
                   reconnectAttempts, isConnecting, calls, timers,
                   closeDue, lostToasts, scheduled>>

\* onmessage: one inbound frame on a socket that is open.
onmessage(s, frame) ==
    /\ closeDue = Null
    /\ s \in SockIds
    /\ sockets[s].readyState = "OPEN"
    /\ LET h == handleMessage(sockets[s].inst, frame)
       IN ev' = [Ev("onmessage", sockets[s].inst, s, FrameName(frame),
                    sockets[s].topic, "none", h.fired, "")
                   EXCEPT !.payload = frame, !.args = h.args, !.note = h.note]
    /\ UNCHANGED <<websocketService, nInst, http, baseUrl, callbacks, handles,
                   reconnectAttempts, isConnecting, sockets, calls, timers,
                   closeDue, lostToasts, scheduled>>

\* ------------------------------------------------------------ specification

Next ==
    \/ \E url \in BaseUrls, cbs \in CallbackSets : initializeWebSocket(url, cbs)
    \/ disconnectWebSocket
    \/ \E i \in Insts : CallConnect(i)
    \/ \E i \in Insts : CallDisconnect(i)
    \/ \E i \in Insts, cbs \in CallbackSets : setCallbacks(i, cbs)
    \/ \E i \in Insts, t \in Topics : CallSendMessage(i, Envelope, t)
    \/ \E k \in 1..MaxTimers : TimerFire(k)
    \/ \E s \in 1..MaxSockets : onopen(s)
    \/ \E s \in 1..MaxSockets : onerror(s)
    \/ \E s \in 1..MaxSockets : onclose(s)
    \/ \E s \in 1..MaxSockets, frame \in Frames : onmessage(s, frame)

Spec == Init /\ [][Next]_vars

\* One session with a single Supervisor: initializeWebSocket is called once.
initializeOnce(url, cbs) ==
    /\ nInst = 0
    /\ initializeWebSocket(url, cbs)

NextOne ==
    \/ \E url \in BaseUrls, cbs \in CallbackSets : initializeOnce(url, cbs)
    \/ disconnectWebSocket
    \/ \E i \in Insts : CallConnect(i)
    \/ \E i \in Insts : CallDisconnect(i)
    \/ \E i \in Insts, cbs \in CallbackSets : setCallbacks(i, cbs)
    \/ \E i \in Insts, t \in Topics : CallSendMessage(i, Envelope, t)
    \/ \E k \in 1..MaxTimers : TimerFire(k)
    \/ \E s \in 1..MaxSockets : onopen(s)
    \/ \E s \in 1..MaxSockets : onerror(s)
    \/ \E s \in 1..MaxSockets : onclose(s)
    \/ \E s \in 1..MaxSockets, frame \in Frames : onmessage(s, frame)

SpecOne == Init /\ [][NextOne]_vars

\* One session in which the UI also uses every send operation with every
\* message and the server sends every kind of frame. Transports open, are
\* closed by disconnect() and shut down; none fails to open.
NextIO ==
    \/ \E url \in BaseUrls, cbs \in CallbackSets : initializeOnce(url, cbs)
    \/ disconnectWebSocket
    \/ \E i \in Insts : CallConnect(i)
    \/ \E i \in Insts : CallDisconnect(i)
    \/ \E i \in Insts, cbs \in CallbackSets : setCallbacks(i, cbs)
    \/ \E i \in Insts, m \in Messages, t \in Topics : CallSendMessage(i, m, t)
    \/ \E i \in Insts, t \in Topics \cup {Omitted} : ping(i, t)
    \/ \E i \in Insts : subscribeToTransactions(i)
    \/ \E i \in Insts : getWalletStatus(i)
    \/ \E i \in Insts, b \in BotIds : subscribeToBotUpdates(i, b)
    \/ \E i \in Insts : CallIsConnected(i)
    \/ \E s \in 1..MaxSockets : onopen(s)
    \/ \E s \in 1..MaxSockets : onclose(s)
    \/ \E s \in 1..MaxSockets, frame \in AllFrames : onmessage(s, frame)

SpecIO == Init /\ [][NextIO]_vars

\* The scenario in which no channel ever opens: the UI initializes once and
\* calls connect() once; afterwards only timers and failing transports act
\* (and the UI may go on sending, which is dropped).
connectFirst(i) ==
    /\ sockets = <<>>
    /\ timers = <<>>
    /\ reconnectAttempts[i] = 0
    /\ lostToasts[i] = 0
    /\ CallConnect(i)

openFails(s) ==
    /\ s \in SockIds
    /\ sockets[s].readyState = "CONNECTING"
    /\ onerror(s)

NextFail ==
    \/ \E url \in BaseUrls, cbs \in CallbackSets : initializeOnce(url, cbs)
    \/ \E i \in Insts : connectFirst(i)
    \/ \E i \in Insts, t \in Topics : CallSendMessage(i, Envelope, t)
    \/ \E k \in 1..MaxTimers : TimerFire(k)
    \/ \E s \in 1..MaxSockets : openFails(s)
    \/ \E s \in 1..MaxSockets : onclose(s)

SpecFail == Init /\ [][NextFail]_vars

\* One session left to itself after the UI's connect(): transports open,
\* fail to open and are shut down by the server; timers fire.  A timer that
\* is due fires, a transport that is connecting opens or fails, and the close
\* event that follows an error is delivered; the server is free to keep an
\* open transport open for ever.
NextLive ==
    \/ \E url \in BaseUrls, cbs \in CallbackSets : initializeOnce(url, cbs)
    \/ \E i \in Insts : connectFirst(i)
    \/ \E k \in 1..MaxTimers : TimerFire(k)
    \/ \E s \in 1..MaxSockets : onopen(s)
    \/ \E s \in 1..MaxSockets : openFails(s)
    \/ \E s \in 1..MaxSockets : onclose(s)

Fairness ==
    /\ \A k \in 1..MaxTimers : WF_vars(TimerFire(k))
    /\ \A s \in 1..MaxSockets : WF_vars(onopen(s) \/ openFails(s))
    /\ \A s \in 1..MaxSockets : WF_vars(closeDue = s /\ onclose(s))

SpecLive == Init /\ [][NextLive]_vars /\ Fairness

\* -------------------------------------------------------- the HTTP layer

Statuses == {200, 401, 500}
Tokens == {"none", "old"}

\* Everything of the WebSocket side.
sockside == <<websocketService, nInst, baseUrl, callbacks, walletSocket,
              botsSocket, notificationsSocket, reconnectAttempts, isConnecting,
              sockets, calls, timers, closeDue, lostToasts, scheduled>>

\* The login code stores (or a logout clears) the tokens and the user.
ApiStore(at, rt, u) ==
    /\ http.phase \in {"idle", "done"}
    /\ http' = [NoHttp EXCEPT !.access_token = at, !.refresh_token = rt,
                              !.user = u]
    /\ ev' = Ev("store", Null, Null, at, "", "none", <<>>, "")
    /\ UNCHANGED sockside

\* A caller issues a request through `api`; the request interceptor adds
\* the stored access token.
ApiRequest ==
    /\ http.phase \in {"idle", "done"}
    /\ http' = [http EXCEPT !.phase = "inflight", !.inflight = "request",
                            !.auth = http.access_token, !.stack = <<>>,
                            !.outcome = "none", !.error = 0, !.refreshes = 0]
    /\ ev' = Ev("request", Null, Null, "request", "", "none", <<>>, "")
    /\ UNCHANGED sockside

\* The number of /auth/refresh calls issued for the caller's request, counted
\* up to MaxRefresh ("MaxRefresh or more").
Counted(n) == IF n < MaxRefresh THEN n + 1 ELSE MaxRefresh

\* The response interceptor's error handler up to its await: with a refresh
\* token stored it posts /auth/refresh through the same `api` instance.
postRefresh ==
    /\ Len(http.stack) < MaxDepth
    /\ http' = [http EXCEPT !.stack = Append(@, http.inflight),
                            !.inflight = "refresh",
                            !.auth = http.access_token,
                            !.refreshes = Counted(@)]

\* The awaited /auth/refresh succeeded: the suspended handler stores the new
\* access token and returns the retry of its request.
retryRequest ==
    http' = [http EXCEPT !.stack = SubSeq(@, 1, Len(@) - 1),
                         !.inflight = http.stack[Len(http.stack)],
                         !.access_token = "new",
                         !.auth = "new"]

\* The request in flight is rejected: every suspended handler runs its catch
\* block (storage cleared, redirect to the login page) and rejects its own
\* error, the bottom one to the caller.
rejectError(status) ==
    IF http.stack = <<>>
    THEN http' = [http EXCEPT !.phase = "done", !.inflight = "none",
                              !.outcome = "rejected", !.error = status]
    ELSE http' = [http EXCEPT !.phase = "done", !.inflight = "none",
                              !.stack = <<>>, !.outcome = "rejected",
                              !.error = 401, !.access_token = "none",
                              !.refresh_token = FALSE, !.user = FALSE,
                              !.location = "login"]

\* The server answers the request in flight and the response interceptor
\* runs.
ApiRespond(status) ==
    /\ http.phase = "inflight"
    /\ CASE status = 200 ->
                IF http.stack = <<>>
                THEN http' = [http EXCEPT !.phase = "done", !.inflight = "none",
                                          !.outcome = "resolved"]
                ELSE retryRequest
         [] status = 401 /\ http.refresh_token -> postRefresh
         [] OTHER -> rejectError(status)
    /\ ev' = Ev("response", Null, Null, http.inflight, ToString(status), "none",
                <<>>, "")
    /\ UNCHANGED sockside

NextApi ==
    \/ \E at \in Tokens, rt \in BOOLEAN, u \in BOOLEAN : ApiStore(at, rt, u)
    \/ ApiRequest
    \/ \E status \in Statuses : ApiRespond(status)

\* The server answers every request.
SpecApi ==
    Init /\ [][NextApi]_vars /\ WF_vars(\E status \in Statuses : ApiRespond(status))

\* ------------------------------------------------------------------ claims

InstsMade == 1..nInst
SocketsOf(i) == {s \in SockIds : sockets[s].inst = i}
TimersOf(i) == {k \in 1..Len(timers) : timers[k].inst = i}
CallsOf(i) == {c \in calls : c.inst = i}
Live(s) == sockets[s].readyState \in {"CONNECTING", "OPEN"}
Exhausted(i) == reconnectAttempts[i] = maxReconnectAttempts /\ lostToasts[i] >= 1

\* C1: once initialize() has been called a second time, getWebSocketService()
\* returns the newest instance (or none after a teardown) and no transport of
\* a superseded instance is connecting or open, in every later state.
C1_SingleLiveSupervisor ==
    nInst >= 2 =>
        /\ websocketService \in {nInst, Null}
        /\ \A i \in 1..(nInst - 1) : \A s \in SocketsOf(i) : ~Live(s)

\* C2: when no open attempt of a Supervisor ever succeeds, the terminal
\* 'Connection lost' notification is emitted at most once, and once it has
\* been emitted no retry is pending or in flight.
C2_AllOpensFail ==
    \A i \in InstsMade :
        /\ lostToasts[i] <= 1
        /\ lostToasts[i] >= 1 => TimersOf(i) = {} /\ CallsOf(i) = {}

\* C3: the delays scheduled since the last reset of the attempt counter are
\* a prefix of d, 2d, 4d, 8d, 16d; there is no sixth.
BackoffFactors == <<1, 2, 4, 8, 16>>
C3_BackoffSequence ==
    \A i \in Insts :
        /\ Len(scheduled[i]) <= Len(BackoffFactors)
        /\ Len(scheduled[i]) = reconnectAttempts[i]
        /\ \A k \in 1..Len(scheduled[i]) :
               scheduled[i][k] = reconnectDelay * BackoffFactors[k]

C3_Witness ==
    \E i \in Insts : scheduled[i] = <<1000, 2000, 4000, 8000, 16000>>

\* C4: once the attempt counter is at the cap and the terminal notification
\* has been emitted, no timer starts a connection attempt of that Supervisor
\* and its counter stays at the cap.
C4_ExhaustionTerminal ==
    [][\A i \in Insts :
          Exhausted(i) =>
              /\ reconnectAttempts'[i] = maxReconnectAttempts
              /\ ~(ev'.op = "connect" /\ ev'.arg = "timer" /\ ev'.inst = i
                   /\ ev'.res = "started")]_vars

\* C5: a connect() call made while isConnecting is set constructs nothing and
\* changes neither the counter, the flag nor the handles; isConnecting is set
\* exactly while one invocation is suspended, and never more than one is.
C5_ConnectGuard ==
    [][\A i \in Insts :
          /\ Cardinality(CallsOf(i)') <= 1
          /\ isConnecting'[i] = (CallsOf(i)' # {})
          /\ (isConnecting[i] /\ ev'.op = "connect" /\ ev'.inst = i) =>
                 UNCHANGED <<sockets, calls, reconnectAttempts, isConnecting,
                             walletSocket, botsSocket, notificationsSocket,
                             lostToasts, scheduled>>]_vars

C5_Witness ==
    /\ ev.op = "connect"
    /\ ev.arg = "timer"
    /\ ev.res = "guarded"
    /\ isConnecting[ev.inst]

\* The step in which the notifications socket awaited by a connect() of i
\* reports ready.
AllOpened(i) ==
    \E c \in CallsOf(i) :
        /\ sockets[c.awaiting].topic = "notifications"
        /\ sockets[c.awaiting].readyState = "CONNECTING"
        /\ sockets'[c.awaiting].readyState = "OPEN"

\* C6: when the third open of a connect() succeeds the invocation ends: its
\* promise resolves, the counter is 0, isConnecting is false, nothing of it
\* stays suspended and no reconnect is scheduled or announced.
C6_SuccessResets ==
    [][\A i \in Insts :
          AllOpened(i) =>
              /\ reconnectAttempts'[i] = 0
              /\ ~isConnecting'[i]
              /\ CallsOf(i)' = {}
              /\ timers' = timers
              /\ lostToasts' = lostToasts
              /\ ev'.settled = "resolved"]_vars

C6_Witness ==
    /\ ev.op = "onopen"
    /\ ev.res = "completed"
    /\ \E s \in SocketsOf(ev.inst) : sockets[s].promise = "rejected"
    /\ reconnectAttempts[ev.inst] = 0

\* The awaited socket of topic t of instance i reports ready in this step.
Readied(i, t) ==
    \E c \in CallsOf(i) :
        /\ sockets[c.awaiting].topic = t
        /\ sockets[c.awaiting].readyState = "CONNECTING"
        /\ sockets'[c.awaiting].readyState = "OPEN"

\* The step appends a timer of i, with the delay of i's new attempt count, to
\* the queue (less the timer that fired, when the step is a timer's).
TimerAdded(i) ==
    LET t == [inst |-> i,
              delay |-> reconnectDelay * BackoffFactors[reconnectAttempts'[i]]]
    IN \/ timers' = Append(timers, t)
       \/ \E k \in 1..Len(timers) : timers' = Append(RemoveAt(timers, k), t)

\* What a failed connect() of i leaves behind.
FailedConnect(i) ==
    /\ ~isConnecting'[i]
    /\ CallsOf(i)' = {}
    /\ Len(sockets') = Len(sockets)
    /\ IF reconnectAttempts[i] < maxReconnectAttempts
       THEN /\ reconnectAttempts'[i] = reconnectAttempts[i] + 1
            /\ TimerAdded(i)
       ELSE /\ reconnectAttempts'[i] = reconnectAttempts[i]
            /\ lostToasts'[i] = lostToasts[i] + 1

\* C7: a step constructs at most one transport; a wallet transport only at
\* the start of a connect(), a bots transport only when the awaited wallet
\* transport reports ready, a notifications transport only when the awaited
\* bots transport does.  When an awaited open fails, or the constructor
\* throws, isConnecting is cleared, nothing further is constructed, the
\* counter is not reset and a timer of that Supervisor is added (below the
\* cap) or the terminal notification is emitted (at the cap); the timer's
\* connect() starts again with the wallet transport.
C7_SequentialOpen ==
    [][/\ Len(sockets') <= Len(sockets) + 1
       /\ Len(sockets') = Len(sockets) + 1 =>
              LET n == Len(sockets')
                  i == sockets'[n].inst
                  t == sockets'[n].topic
              IN /\ t = "wallet" =>
                        ev'.op = "connect" /\ ev'.inst = i /\ walletSocket'[i] = n
                 /\ t = "bots" => Readied(i, "wallet") /\ botsSocket'[i] = n
                 /\ t = "notifications" =>
                        Readied(i, "bots") /\ notificationsSocket'[i] = n
       /\ \A s \in SockIds :
              (sockets[s].promise = "pending" /\ sockets'[s].promise = "rejected")
                  => FailedConnect(sockets[s].inst)
       /\ \A i \in Insts :
              (ev'.op = "connect" /\ ev'.res = "threw" /\ ev'.inst = i)
                  => FailedConnect(i)
       /\ (ev'.op = "connect" /\ ev'.res = "started") =>
              /\ Len(sockets') = Len(sockets) + 1
              /\ sockets'[Len(sockets')].topic = "wallet"]_vars

C7_Witness ==
    /\ ev.op = "onerror"
    /\ ev.res = "rejected"
    /\ ev.arg = "bots"
    /\ \E s \in SocketsOf(ev.inst) :
           sockets[s].topic = "wallet" /\ sockets[s].readyState = "OPEN"
    /\ TimersOf(ev.inst) # {}

\* C8 as stated: the promise of connect() rejects when an open fails and
\* resolves only when all three channels were observed ready.
C8_RejectsOnFailure ==
    /\ (ev.res \in {"rejected", "threw"}) => ev.settled = "rejected"
    /\ ev.settled = "resolved" => ev.res = "completed"

\* C8 amended: the promise of connect() never rejects.  It resolves when all
\* three channels were observed ready, when an open failed and the catch
\* block has run, and at once when another connect() is in flight; it stays
\* pending otherwise.
C8_NeverRejects ==
    /\ ev.settled # "rejected"
    /\ ev.settled = "resolved" <=>
           \/ ev.op = "onopen" /\ ev.res = "completed"
           \/ ev.op = "onerror" /\ ev.res = "rejected"
           \/ ev.op = "connect" /\ ev.res \in {"guarded", "threw"}

C8_Witness ==
    /\ ev.op = "onerror"
    /\ ev.res = "rejected"
    /\ ev.settled = "resolved"
    /\ ~isConnecting[ev.inst]

\* C9: the attempt counter stays within 0..5; it changes only by +1 from
\* below the cap together with a new timer (scheduleReconnect) or to 0 when
\* a connect() completes; disconnect, initialize, teardown, sendMessage,
\* message dispatch and setCallbacks leave it alone.
C9_CounterDiscipline ==
    [][\A i \in Insts :
          /\ reconnectAttempts'[i] \in 0..maxReconnectAttempts
          /\ reconnectAttempts'[i] # reconnectAttempts[i] =>
                 \/ /\ reconnectAttempts'[i] = reconnectAttempts[i] + 1
                    /\ ev'.inst = i
                    /\ ev'.op \in {"onerror", "onclose", "connect"}
                    /\ TimerAdded(i)
                 \/ /\ reconnectAttempts'[i] = 0
                    /\ AllOpened(i)
          /\ ev'.op \in {"disconnect", "disconnectWebSocket", "initializeWebSocket",
                         "sendMessage", "onmessage", "setCallbacks"} =>
                 reconnectAttempts' = reconnectAttempts]_vars

C9_Witness ==
    \E i \in Insts :
        /\ reconnectAttempts[i] = maxReconnectAttempts
        /\ ev.op = "onerror"
        /\ ev.inst = i

\* C10: after disconnect() no transport the Supervisor ever constructed is
\* connecting or open, its three handles are null and isConnected() is false.
C10_DisconnectClosesAll ==
    ev.op = "disconnect" =>
        /\ \A s \in SocketsOf(ev.inst) : ~Live(s)
        /\ walletSocket[ev.inst] = Null
        /\ botsSocket[ev.inst] = Null
        /\ notificationsSocket[ev.inst] = Null
        /\ ~isConnected(ev.inst)

\* Everything but the observation of the last step.
state == <<websocketService, nInst, baseUrl, callbacks, walletSocket, botsSocket,
           notificationsSocket, reconnectAttempts, isConnecting, sockets, calls,
           timers, closeDue, lostToasts, scheduled, http>>

IsPrefix(a, b) == Len(a) <= Len(b) /\ \A k \in 1..Len(a) : a[k] = b[k]

\* C11: disconnect() (also through initialize and teardown) leaves the timer
\* queue as it is; a timer leaves the queue only by firing, and a firing
\* timer runs connect() on its Supervisor: unless a connect() is in flight,
\* it constructs a wallet transport (or runs the catch block when the
\* constructor throws), whether or not the Supervisor was disconnected.
C11_TimerSurvivesDisconnect ==
    [][/\ ev'.op \in {"disconnect", "disconnectWebSocket", "initializeWebSocket"}
              => timers' = timers
       /\ ~IsPrefix(timers, timers') =>
              /\ ev'.op = "connect"
              /\ ev'.arg = "timer"
              /\ \E k \in 1..Len(timers) :
                     /\ timers[k].inst = ev'.inst
                     /\ IsPrefix(RemoveAt(timers, k), timers')
       /\ \A i \in Insts :
              (ev'.op = "connect" /\ ev'.arg = "timer" /\ ev'.inst = i
               /\ ~isConnecting[i]) =>
                  IF baseUrl[i] = "bad"
                  THEN ev'.res = "threw"
                  ELSE /\ isConnecting'[i]
                       /\ walletSocket'[i] = Len(sockets')
                       /\ Len(sockets') = Len(sockets) + 1]_vars

C11_Witness ==
    /\ nInst >= 1
    /\ websocketService = Null
    /\ ev.op = "connect"
    /\ ev.arg = "timer"
    /\ ev.res \in {"started", "threw"}

\* C12: disconnect() on a Supervisor that has constructed no transport
\* changes nothing, invokes no callback and announces nothing.
C12_DisconnectNeverConnected ==
    [][\A i \in Insts :
          (ev'.op = "disconnect" /\ ev'.inst = i /\ SocketsOf(i) = {}) =>
              /\ UNCHANGED state
              /\ ev'.fired = <<>>
              /\ ev'.toast = ""
              /\ ev'.settled = "none"]_vars

C12_Witness ==
    /\ ev.op = "disconnect"
    /\ SocketsOf(ev.inst) = {}
    /\ callbacks[ev.inst] = CallbackNames
    /\ reconnectAttempts[ev.inst] = 0

\* C13: a disconnect() that directly follows a disconnect() of the same
\* Supervisor changes nothing (and so closes no transport).
C13_DisconnectIdempotent ==
    [][(ev.op = "disconnect" /\ ev'.op = "disconnect" /\ ev'.inst = ev.inst)
          => UNCHANGED state]_vars

C13_Witness ==
    /\ ev.op = "disconnect"
    /\ \E s \in SocketsOf(ev.inst) : sockets[s].readyState = "CLOSING"
    /\ walletSocket[ev.inst] = Null

\* ------------------------------------------------- sending and dispatching

SendOps ==
    {"sendMessage", "ping", "subscribeToTransactions", "getWalletStatus",
     "subscribeToBotUpdates"}

\* C14: sendMessage on a topic whose handle is null or whose transport is
\* not OPEN transmits nothing, warns, and changes no field. Nothing is ever
\* transmitted but by a send operation, which transmits the message it was
\* called with to a transport that is OPEN at the call: a dropped message
\* is not transmitted later.
C14_SendDropsWhenNotOpen ==
    [][/\ \A i \in Insts, t \in Topics :
              (/\ ev'.op = "sendMessage" /\ ev'.inst = i /\ ev'.arg = t
               /\ \/ Handle(i, t) = Null
                  \/ sockets[Handle(i, t)].readyState # "OPEN") =>
                  /\ ev'.wire = <<>>
                  /\ ev'.res = "warn"
                  /\ ev'.settled = "none"
                  /\ UNCHANGED state
       /\ ev'.wire # <<>> =>
              /\ ev'.op \in SendOps
              /\ Len(ev'.wire) = 1
              /\ ev'.wire[1].text = Stringify(ev'.payload)
              /\ ev'.wire[1].sock = Handle(ev'.inst, TopicOr(ev'.arg))
              /\ sockets[ev'.wire[1].sock].readyState = "OPEN"
              /\ UNCHANGED state]_vars

C14_Witness ==
    /\ ev.op = "sendMessage"
    /\ ev.res = "warn"
    /\ ev.wire = <<>>
    /\ ev.sock # Null
    /\ sockets[ev.sock].readyState = "CONNECTING"

Recognized ==
    {"connection_established", "balance_update", "transaction_notification",
     "bot_status_update", "system_notification", "error_notification", "pong"}

\* C15: a frame that is valid JSON and whose type is none of the seven
\* recognized ones (or that has no type at all) invokes no callback, raises
\* no toast and lets no exception out.
C15_UnknownTypeIgnored ==
    (/\ ev.op = "onmessage"
     /\ ev.payload.json
     /\ ev.payload.isNull \/ ev.payload.type \notin Recognized) =>
        /\ ev.fired = <<>>
        /\ ev.args = <<>>
        /\ ev.note = <<>>
        /\ ev.toast = ""
        /\ ev.settled = "none"

C15_Witness ==
    /\ ev.op = "onmessage"
    /\ ev.payload = Frame("other", SampleData)
    /\ callbacks[ev.inst] = CallbackNames

\* C16: a frame that is not JSON invokes no callback and raises no toast,
\* changes no field (its transport stays OPEN, no reconnect is scheduled),
\* and leaves the transport able to take every frame.
C16_MalformedDropped ==
    /\ [][\A s \in 1..MaxSockets :
             (ev'.op = "onmessage" /\ ev'.sock = s /\ ~ev'.payload.json) =>
                 /\ ev'.fired = <<>>
                 /\ ev'.note = <<>>
                 /\ UNCHANGED state
                 /\ sockets'[s].readyState = "OPEN"]_vars
    /\ [](\A s \in 1..MaxSockets :
             (ev.op = "onmessage" /\ ev.sock = s /\ ~ev.payload.json) =>
                 \A frame \in AllFrames : ENABLED onmessage(s, frame))

C16_Witness ==
    /\ ev.op = "onmessage"
    /\ ~ev.payload.json
    /\ sockets[ev.sock].readyState = "OPEN"
    /\ callbacks[ev.inst] = CallbackNames

CallbackFor ==
    [connection_established |-> "onConnectionEstablished",
     balance_update |-> "onBalanceUpdate",
     transaction_notification |-> "onTransactionNotification",
     bot_status_update |-> "onBotStatusUpdate",
     system_notification |-> "onSystemNotification",
     error_notification |-> "onError"]

\* C17: a frame of a recognized type invokes the callback of its type, if
\* registered, once with the frame's data, and no other callback; pong
\* invokes none. The channel the frame came on plays no part.
C17_OneCallbackPerType ==
    (/\ ev.op = "onmessage"
     /\ ev.payload.json
     /\ ~ev.payload.isNull
     /\ ev.payload.type \in Recognized) =>
        IF /\ ev.payload.type # "pong"
           /\ CallbackFor[ev.payload.type] \in callbacks[ev.inst]
        THEN /\ ev.fired = <<CallbackFor[ev.payload.type]>>
             /\ ev.args = <<ev.payload.data>>
        ELSE /\ ev.fired = <<>>
             /\ ev.args = <<>>

C17_Witness ==
    /\ ev.op = "onmessage"
    /\ ev.payload = Frame("bot_status_update", SampleData)
    /\ ev.res = "wallet"
    /\ ev.fired = <<"onBotStatusUpdate">>

\* C18: a transaction_notification carrying a transaction raises one toast,
\* 'Received' when the category name is one of those holding 'receive',
\* 'Sent' for every other name and when there is none.
C18_Polarity ==
    (/\ ev.op = "onmessage"
     /\ ev.payload.json
     /\ ~ev.payload.isNull
     /\ ev.payload.type = "transaction_notification"
     /\ "transaction" \in DOMAIN ev.payload.data) =>
        LET tx == ev.payload.data.transaction
            credit == /\ "transaction_type" \in DOMAIN tx
                      /\ tx.transaction_type \in CreditNames
        IN /\ Len(ev.note) = 1
           /\ "transaction_type" \in DOMAIN tx =>
                  tx.transaction_type \in CreditNames \cup DebitNames
           /\ IF credit
              THEN /\ StartsWith(ev.note[1].text, "Received KES ")
                   /\ ev.note[1].icon = "money_bag"
              ELSE /\ StartsWith(ev.note[1].text, "Sent KES ")
                   /\ ev.note[1].icon = "money_wings"

C18_Witness ==
    /\ ev.op = "onmessage"
    /\ ev.payload =
           Frame("transaction_notification",
                 [transaction |->
                      [transaction_type |-> "p2p_receive", amount |-> 1234567]])
    /\ ev.note = <<[kind |-> "success", text |-> "Received KES 1,234,567",
                    icon |-> "money_bag"]>>

\* C19: the singleton is the instance of the most recent initializeWebSocket
\* or none: initializeWebSocket makes a new instance the singleton after
\* disconnect() of the previous one, and starts no connect(); teardown
\* disconnects the singleton and clears it, and does nothing without one;
\* no other step changes it.
C19_Singleton ==
    [][/\ getWebSocketService' \in {Null, nInst'}
       /\ ev'.op = "initializeWebSocket" =>
              /\ nInst' = nInst + 1
              /\ getWebSocketService' = nInst'
              /\ \A i \in Insts :
                     i = getWebSocketService =>
                         /\ walletSocket'[i] = Null
                         /\ botsSocket'[i] = Null
                         /\ notificationsSocket'[i] = Null
                         /\ \A t \in Topics :
                                Handle(i, t) # Null =>
                                    sockets'[Handle(i, t)].readyState
                                        \in {"CLOSING", "CLOSED"}
              /\ Len(sockets') = Len(sockets)
              /\ UNCHANGED <<isConnecting, calls, timers, reconnectAttempts>>
       /\ ev'.op = "disconnectWebSocket" =>
              /\ getWebSocketService' = Null
              /\ nInst' = nInst
              /\ \A i \in Insts :
                     i = getWebSocketService =>
                         /\ walletSocket'[i] = Null
                         /\ botsSocket'[i] = Null
                         /\ notificationsSocket'[i] = Null
                         /\ \A t \in Topics :
                                Handle(i, t) # Null =>
                                    sockets'[Handle(i, t)].readyState
                                        \in {"CLOSING", "CLOSED"}
              /\ getWebSocketService = Null => UNCHANGED state
       /\ ev'.op \notin {"initializeWebSocket", "disconnectWebSocket"} =>
              /\ getWebSocketService' = getWebSocketService
              /\ nInst' = nInst]_vars

C19_Witness ==
    /\ ev.op = "initializeWebSocket"
    /\ nInst = 2
    /\ getWebSocketService = 2
    /\ \E s \in SocketsOf(1) : sockets[s].readyState = "CLOSING"
    /\ walletSocket[1] = Null

\* C20: each convenience operation hands sendMessage its fixed envelope on
\* its fixed topic: the text reaches that topic's transport when it is OPEN
\* and is dropped with a warning otherwise; nothing goes to another topic.
Delivered(topic, text) ==
    /\ ev.sock = Handle(ev.inst, topic)
    /\ IF ev.sock # Null /\ sockets[ev.sock].readyState = "OPEN"
       THEN /\ ev.res = "sent"
            /\ ev.wire = <<[sock |-> ev.sock, text |-> text]>>
       ELSE /\ ev.res = "warn"
            /\ ev.wire = <<>>

C20_ConvenienceEnvelopes ==
    /\ ev.op = "subscribeToTransactions" =>
           Delivered("wallet", "{\"type\":\"subscribe_transactions\"}")
    /\ ev.op = "getWalletStatus" =>
           Delivered("wallet", "{\"type\":\"get_wallet_status\"}")
    /\ ev.op = "subscribeToBotUpdates" =>
           \E b \in BotIds :
               /\ ev.payload = [type |-> "subscribe_bot_updates", bot_id |-> b]
               /\ Delivered("bots",
                      "{\"type\":\"subscribe_bot_updates\",\"bot_id\":\""
                          \o b \o "\"}")
    /\ ev.op = "ping" =>
           Delivered(IF ev.arg = Omitted THEN "wallet" ELSE ev.arg,
                     "{\"type\":\"ping\"}")

C20_Witness ==
    /\ ev.op = "ping"
    /\ ev.arg = "notifications"
    /\ ev.res = "sent"
    /\ ev.wire = <<[sock |-> notificationsSocket[ev.inst],
                    text |-> "{\"type\":\"ping\"}"]>>
    /\ isConnected(ev.inst)

\* ------------------------------------------------- errors, closes, retries

\* C21: an error event on a transport whose open promise has resolved
\* schedules nothing, leaves the counter, isConnecting, the suspended
\* connect() calls and the handles as they are and settles no promise; the
\* close event is due next, and it is the close handler that calls
\* scheduleReconnect (a timer and an attempt below the cap).
C21_ErrorAfterReady ==
    [][/\ \A s \in 1..MaxSockets :
              (/\ ev'.op = "onerror"
               /\ closeDue' = s
               /\ s \in SockIds
               /\ sockets[s].promise = "resolved") =>
                  /\ UNCHANGED <<timers, reconnectAttempts, scheduled, lostToasts,
                                 isConnecting, calls, handles>>
                  /\ ev'.settled = "none"
                  /\ ev'.toast = ""
       /\ \A s \in 1..MaxSockets :
              closeDue = s =>
                  /\ ev'.op = "onclose"
                  /\ ev'.inst = sockets[s].inst
                  /\ \A i \in Insts :
                         (i = sockets[s].inst
                          /\ reconnectAttempts[i] < maxReconnectAttempts) =>
                             /\ reconnectAttempts'[i] = reconnectAttempts[i] + 1
                             /\ TimerAdded(i)]_vars

C21_Witness ==
    /\ ev.op = "onerror"
    /\ ev.res = "ignored"
    /\ closeDue # Null
    /\ sockets[closeDue].promise = "resolved"
    /\ isConnecting[ev.inst]

\* C22: isConnected() is true exactly when one of the three handles refers
\* to a transport that is OPEN; it is false on a Supervisor that has
\* constructed no transport and right after disconnect(); it changes no
\* field.
C22_IsConnected ==
    [][\A i \in Insts :
          (ev'.op = "isConnected" /\ ev'.inst = i) =>
              /\ UNCHANGED state
              /\ ev'.res \in {"true", "false"}
              /\ ev'.res = "true" <=>
                     \E s \in SockIds :
                         /\ sockets[s].readyState = "OPEN"
                         /\ s \in {walletSocket[i], botsSocket[i],
                                   notificationsSocket[i]}
              /\ SocketsOf(i) = {} => ev'.res = "false"
              /\ (ev.op = "disconnect" /\ ev.inst = i) => ev'.res = "false"]_vars

C22_Witness ==
    /\ ev.op = "isConnected"
    /\ ev.res = "true"
    /\ sockets[walletSocket[ev.inst]].readyState = "OPEN"
    /\ botsSocket[ev.inst] # Null
    /\ sockets[botsSocket[ev.inst]].readyState = "CONNECTING"

\* C23: every transport of a Supervisor that is OPEN is the one the handle
\* of its topic refers to (so at most one is open per topic).
C23_NoOrphanTransport ==
    \A s \in SockIds :
        sockets[s].readyState = "OPEN" =>
            Handle(sockets[s].inst, sockets[s].topic) = s

\* C24: the close event of a transport that close() put in CLOSING (only
\* disconnect() calls close()) schedules nothing, leaves the counter as it
\* is and announces nothing.
C24_DisconnectCloseQuiet ==
    [][\A s \in 1..MaxSockets :
          (/\ ev'.op = "onclose"
           /\ s \in SockIds
           /\ sockets[s].readyState = "CLOSING"
           /\ sockets'[s].readyState = "CLOSED") =>
              /\ UNCHANGED <<timers, reconnectAttempts, scheduled, lostToasts>>
              /\ ev'.toast = ""]_vars

\* C25: no Supervisor has two reconnect timers pending.
C25_OneTimerPending ==
    \A i \in Insts : Cardinality({k \in 1..Len(timers) : timers[k].inst = i}) <= 1

\* C26: in the state in which a connect() has completed (its third open
\* reported ready and the counter was reset), the three handles refer to
\* transports that are OPEN.
C26_AllOpenAtSuccess ==
    (ev.op = "onopen" /\ ev.res = "completed") =>
        /\ reconnectAttempts[ev.inst] = 0
        /\ \A t \in Topics :
               /\ Handle(ev.inst, t) # Null
               /\ sockets[Handle(ev.inst, t)].readyState = "OPEN"

\* C28: the step in which an awaited open fails ends the invocation: it
\* constructs no transport, leaves the three handles and every other
\* transport as they are (what was opened stays open) and leaves nothing of
\* the invocation suspended.
C28_NoRollback ==
    [][\A s \in 1..MaxSockets :
          (ev'.op = "onerror" /\ ev'.res = "rejected" /\ closeDue' = s) =>
              /\ Len(sockets') = Len(sockets)
              /\ UNCHANGED handles
              /\ \A x \in SockIds \ {s} : sockets'[x] = sockets[x]
              /\ \A i \in Insts : i = sockets[s].inst => CallsOf(i)' = {}]_vars

C28_Witness ==
    /\ ev.op = "onerror"
    /\ ev.res = "rejected"
    /\ ev.arg = "bots"
    /\ ~isConnecting[ev.inst]
    /\ isConnected(ev.inst)
    /\ sockets[walletSocket[ev.inst]].readyState = "OPEN"
    /\ sockets[botsSocket[ev.inst]].readyState = "CLOSED"
    /\ notificationsSocket[ev.inst] = Null

\* C29: a close handler invokes onDisconnect, once and before it calls
\* scheduleReconnect, when the transport is a wallet transport and the
\* callback is registered; the close handlers of the other topics, and
\* every other step, do not invoke it.
C29_OnDisconnectPerWalletClose ==
    /\ ev.op = "onclose" =>
           IF ev.arg = "wallet" /\ "onDisconnect" \in callbacks[ev.inst]
           THEN /\ ev.fired = <<"onDisconnect">>
                /\ ev.order = <<"onDisconnect", "scheduleReconnect">>
           ELSE /\ ev.fired = <<>>
                /\ ev.order = <<"scheduleReconnect">>
    /\ ev.op # "onclose" =>
           \A k \in 1..Len(ev.fired) : ev.fired[k] # "onDisconnect"

C29_Witness ==
    /\ ev.op = "onclose"
    /\ ev.arg = "wallet"
    /\ ev.res = "clean"
    /\ ev.fired = <<"onDisconnect">>
    /\ \E s \in SocketsOf(ev.inst) :
           sockets[s].topic = "bots" /\ sockets[s].readyState = "CLOSED"

\* The last step was the close event of the transport the handle of topic t
\* refers to, which had been open, and the close handler set a timer.
ClosedUnexpectedly(i, t) ==
    /\ ev.op = "onclose"
    /\ ev.inst = i
    /\ ev.arg = t
    /\ ev.res = "clean"
    /\ ev.toast = ""
    /\ Handle(i, t) # Null
    /\ sockets[Handle(i, t)].readyState = "CLOSED"

\* A transport of topic t has been constructed since.
Reattempted(i, t) ==
    /\ Handle(i, t) # Null
    /\ sockets[Handle(i, t)].readyState \in {"CONNECTING", "OPEN"}

\* The run has used up the transports, timers or notifications it may use.
AtBound ==
    \/ Len(sockets) = MaxSockets
    \/ Len(timers) = MaxTimers
    \/ \E i \in Insts : lostToasts[i] = MaxToasts

\* C27: after the unexpected close of a channel, with the counter below the
\* cap, a new transport of that topic is eventually constructed (unless the
\* retries are exhausted first).
C27_ReconnectsAfterClose ==
    \A i \in Insts, t \in Topics :
        ClosedUnexpectedly(i, t) ~> (Reattempted(i, t) \/ Exhausted(i) \/ AtBound)

\* C30: a request that is in flight is eventually settled for its caller.
C30_InterceptorTerminates ==
    (http.phase = "inflight") ~> (http.phase = "done")

====
